---- MODULE Spec2Model ----
(***************************************************************************)
(* Resilience layer of ocean-node:                                         *)
(*   - src/src/components/core/utils/findDdoHandler.ts                     *)
(*       hasCachedDDO, sortFindDDOResults, findDDOLocally                  *)
(*   - src/src/utils/blockchain.ts                                         *)
(*       class Blockchain (constructor, isNetworkReady, detectNetwork,     *)
(*       tryFallbackRPCs, registerForNetworkEvents, networkChanged)        *)
(*                                                                         *)
(* The specifications share the variables:                                 *)
(*   SpecSort     sortFindDDOResults applied to every bounded candidate    *)
(*                list                                                     *)
(*   SpecCache    one resolution attempt at a time: findDDOLocally, the    *)
(*                candidate list, sortFindDDOResults and the local store   *)
(*   SpecFresh    cache freshness: findDDOLocally, hasCachedDDO, the local *)
(*                store and the clock                                      *)
(*   SpecResolve  findDDOLocally called by concurrent callers              *)
(*   SpecChain    the Blockchain connection manager: one tryFallbackRPCs   *)
(*                call at a time, isNetworkReady, notifications            *)
(*   SpecChainLive  SpecChain with every await completing                  *)
(*   SpecOverlap  two overlapping tryFallbackRPCs calls                    *)
(***************************************************************************)
EXTENDS Integers, Sequences, FiniteSets

\* ------------------------------------------------------------------ bounds
\* lastUpdateTime instants range over 0..MaxTime
MaxTime == 1
\* longest candidate list handed to sortFindDDOResults in SpecSort
MaxLen == 3
\* peer responses gathered for one resolution attempt: 0..MaxPeers
MaxPeers == 1
\* the wall clock runs over 0..CACHE_TTL + MaxSlack
MaxSlack == 1
\* fallback endpoints configured besides the primary: 0..MaxFallbacks
MaxFallbacks == 2
\* JsonRpcProvider objects created after the constructor's
MaxNewProviders == 4

\* CACHE_TTL, imported from P2P/index.js, in clock ticks (the clock unit is
\* chosen so that the TTL is one tick)
CACHE_TTL == 1

VARIABLES
    \* ---- DDO cache (node.getDDOCache(), node.getDatabase())
    now,          \* wall clock, new Date().getTime()
    dht,          \* node.getDDOCache().dht : id -> FindDDOResponse (NoEntry: no key)
    updated,      \* node.getDDOCache().updated
    db,           \* node.getDatabase().ddo : id -> stored DDO (NoDDO: absent)
    calls,        \* findDDOLocally invocations, one record per caller
    resultList,   \* the caller's candidate array (sortFindDDOResults sorts it in place)
    sortArg,      \* history: contents of the array when sortFindDDOResults was called
    sortCalled,   \* history: sortFindDDOResults has returned for resultList
    lookup,       \* history: the last hasCachedDDO call, [id, at, ret]
    insertedAt,   \* history: id -> clock value of the last dht.set for id (-1: never)
    resolved,     \* history: id -> greatest instant findDDOLocally built for id
    \* ---- Blockchain
    knownRPCs,        \* this.knownRPCs
    providers,        \* every JsonRpcProvider object created so far
    provider,         \* this.provider   (index into providers)
    signer,           \* this.signer     (index of the provider the Wallet is bound to)
    networkAvailable, \* this.networkAvailable
    reachable,        \* environment: the endpoints that answer
    fb,               \* tryFallbackRPCs invocations, one record per caller
    nr,               \* the isNetworkReady invocation of an outside caller
    lastEvent         \* history: the last "network" notification delivered

ddoVars == <<now, dht, updated, db, calls, resultList, sortArg, sortCalled,
             lookup, insertedAt, resolved>>
chainVars == <<knownRPCs, providers, provider, signer, networkAvailable,
               reachable, fb, nr, lastEvent>>
vars == <<ddoVars, chainVars>>

\* ------------------------------------------------------------- data model
Ids == {"ddo-1", "ddo-2"}
\* the callers of findDDOLocally (concurrent in SpecResolve)
Callers == {1, 2}
Self == "self"
Providers == {Self, "peer"}
\* A lastUpdateTime is a date string: an instant written in one of two
\* textual forms ("...Z" and "...+00:00" denote the same instant).
Forms == {"Z", "+00:00"}
Stamps == [sec : 0..MaxTime, form : Forms]
Txs == {"0xa"}

NoEntry == [none |-> "entry"]
NoDDO == [none |-> "ddo"]
Undefined == [none |-> "undefined"]

FindDDOResponse == [id : Ids, lastUpdateTx : Txs, lastUpdateTime : Stamps,
                    provider : Providers]
StoredDDO == [tx : Txs, updated : Stamps]

\* new Date(s): the instant a date string denotes; its textual form is lost
NewDate(s) == s.sec

Max2(a, b) == IF a >= b THEN a ELSE b

\* ------------------------------------------------------ sortFindDDOResults
\* mutant of Compare: the two branches swapped (ascending order)
CompareAscending(a, b) ==
    IF NewDate(b.lastUpdateTime) > NewDate(a.lastUpdateTime) THEN -1
    ELSE IF NewDate(b.lastUpdateTime) < NewDate(a.lastUpdateTime) THEN 1
    ELSE 0

\* mutant of Compare: ">" written ">=", so that equal dates are reordered
CompareTieFlip(a, b) ==
    IF NewDate(b.lastUpdateTime) >= NewDate(a.lastUpdateTime) THEN 1
    ELSE IF NewDate(b.lastUpdateTime) < NewDate(a.lastUpdateTime) THEN -1
    ELSE 0

\* the comparator handed to resultList.sort
Compare(a, b) ==
    IF NewDate(b.lastUpdateTime) > NewDate(a.lastUpdateTime) THEN 1
    ELSE IF NewDate(b.lastUpdateTime) < NewDate(a.lastUpdateTime) THEN -1
    ELSE 0

\* x inserted into the sorted run s: it moves left past every element the
\* comparator orders after it (comparator result > 0), and no further
RECURSIVE InsertSorted(_, _)
InsertSorted(s, x) ==
    IF s = <<>> THEN <<x>>
    ELSE IF Compare(s[Len(s)], x) > 0
         THEN InsertSorted(SubSeq(s, 1, Len(s) - 1), x) \o <<s[Len(s)]>>
         ELSE s \o <<x>>

\* Array.prototype.sort(comparator): a stable sort
RECURSIVE ArraySort(_)
ArraySort(list) ==
    IF list = <<>> THEN <<>>
    ELSE InsertSorted(ArraySort(SubSeq(list, 1, Len(list) - 1)), list[Len(list)])

\* mutant of SortFindDDOResults: an empty list answered with undefined
SortFindDDOResultsUndefined(list) ==
    IF Len(list) > 0 THEN ArraySort(list) ELSE <<Undefined>>

\* the array sortFindDDOResults returns (the argument array itself, sorted)
SortFindDDOResults(list) ==
    IF Len(list) > 0 THEN ArraySort(list) ELSE list

RecordsFor(id) == {r \in FindDDOResponse : r.id = id}
CandidateLists(n) ==
    UNION {[1..k -> RecordsFor(id)] : k \in 0..n, id \in Ids}

\* greatest instant among the records of a list (-1 for the empty list)
RECURSIVE MaxInstant(_)
MaxInstant(list) ==
    IF list = <<>> THEN -1
    ELSE Max2(NewDate(list[1].lastUpdateTime), MaxInstant(Tail(list)))

\* mutant of SortCall: the winner is also written into the cache
SortCallCaching(list) ==
    /\ resultList' = SortFindDDOResults(list)
    /\ sortArg' = list
    /\ sortCalled' = TRUE
    /\ dht' = IF list = <<>> THEN dht
              ELSE [dht EXCEPT ![list[1].id] = resultList'[1]]
    /\ updated' = IF list = <<>> THEN updated ELSE now
    /\ UNCHANGED <<now, db, lookup, insertedAt, resolved>>
    /\ UNCHANGED chainVars

\* sortFindDDOResults called on the caller's array, whose contents are
\* list: the array is sorted in place and returned; the function reads and
\* writes nothing else
SortCall(list) ==
    /\ resultList' = SortFindDDOResults(list)
    /\ sortArg' = list
    /\ sortCalled' = TRUE
    /\ UNCHANGED <<now, dht, updated, db, lookup, insertedAt, resolved>>
    /\ UNCHANGED chainVars

\* sortFindDDOResults(resultList)
sortFindDDOResults ==
    /\ ~sortCalled
    /\ SortCall(resultList)
    /\ UNCHANGED calls

\* ------------------------------------------------------------ hasCachedDDO
\* hasCachedDDO(task, node): the key is in the map and the cache as a whole
\* (node.getDDOCache().updated) is no older than CACHE_TTL
HasCachedDDO(id) ==
    /\ dht[id] # NoEntry
    /\ now - updated <= CACHE_TTL

\* one call of hasCachedDDO; it writes nothing but its return value
hasCachedDDO(id) ==
    /\ lookup' = [id |-> id, ret |-> HasCachedDDO(id)]
    /\ UNCHANGED <<now, dht, updated, db, calls, resultList, sortArg,
                   sortCalled, insertedAt, resolved>>
    /\ UNCHANGED chainVars

\* ---------------------------------------------------------- findDDOLocally
\* the FindDDOResponse built from a stored DDO, with this node as provider
DdoInfo(id, ddo) ==
    [id |-> id, lastUpdateTx |-> ddo.tx, lastUpdateTime |-> ddo.updated,
     provider |-> Self]

\* mutant of CacheAfterFind: the cache is overwritten without comparing
CacheAfterFindOverwrite(cached, ddoInfo) == ddoInfo

\* mutant of CacheAfterFind: ">" written ">=", a tie replaces the entry
CacheAfterFindTie(cached, ddoInfo) ==
    IF cached = NoEntry THEN ddoInfo
    ELSE IF NewDate(ddoInfo.lastUpdateTime) >= NewDate(cached.lastUpdateTime)
         THEN ddoInfo
         ELSE cached

\* mutant of CacheAfterFind: ">" written "<", the older record wins
CacheAfterFindReversed(cached, ddoInfo) ==
    IF cached = NoEntry THEN ddoInfo
    ELSE IF NewDate(ddoInfo.lastUpdateTime) < NewDate(cached.lastUpdateTime)
         THEN ddoInfo
         ELSE cached

\* the value the cache maps ddo.id to after the body of "if (ddo)"
CacheAfterFind(cached, ddoInfo) ==
    IF cached = NoEntry THEN ddoInfo
    ELSE IF NewDate(ddoInfo.lastUpdateTime) > NewDate(cached.lastUpdateTime)
         THEN ddoInfo
         ELSE cached

\* findDDOLocally up to "await node.getDatabase().ddo.retrieve(id)"
\* (the candidate array of the caller's previous attempt is gone by then)
findDDOLocallyCall(c, id) ==
    /\ calls[c].pc # "retrieve"
    /\ calls' = [calls EXCEPT ![c] = [pc |-> "retrieve", id |-> id]]
    /\ resultList' = <<>>
    /\ sortArg' = <<>>
    /\ sortCalled' = FALSE
    /\ UNCHANGED <<now, dht, updated, db, lookup, insertedAt, resolved>>
    /\ UNCHANGED chainVars

\* mutant of findDDOLocallyResume: a miss in the store also drops the
\* identifier's cache entry
findDDOLocallyResumeEvict(c) ==
    /\ calls[c].pc = "retrieve"
    /\ LET id == calls[c].id
           ddo == db[id]
           ddoInfo == DdoInfo(id, ddo)
       IN IF ddo # NoDDO
          THEN /\ dht' = [dht EXCEPT ![id] = CacheAfterFind(dht[id], ddoInfo)]
               /\ insertedAt' = IF dht'[id] # dht[id]
                                THEN [insertedAt EXCEPT ![id] = now]
                                ELSE insertedAt
               /\ resolved' = [resolved EXCEPT ![id] =
                                  Max2(@, NewDate(ddoInfo.lastUpdateTime))]
               /\ calls' = [calls EXCEPT ![c] =
                              [pc |-> "returned", id |-> id, ret |-> ddoInfo]]
          ELSE /\ calls' = [calls EXCEPT ![c] =
                              [pc |-> "returned", id |-> id, ret |-> Undefined]]
               /\ dht' = [dht EXCEPT ![id] = NoEntry]
               /\ UNCHANGED <<insertedAt, resolved>>
    /\ UNCHANGED <<now, updated, db, resultList, sortArg, sortCalled, lookup>>
    /\ UNCHANGED chainVars

\* findDDOLocally from the answer of retrieve to its return: one
\* synchronous block
findDDOLocallyResume(c) ==
    /\ calls[c].pc = "retrieve"
    /\ LET id == calls[c].id
           ddo == db[id]
           ddoInfo == DdoInfo(id, ddo)
       IN IF ddo # NoDDO
          THEN /\ dht' = [dht EXCEPT ![id] = CacheAfterFind(dht[id], ddoInfo)]
               /\ insertedAt' = IF dht'[id] # dht[id]
                                THEN [insertedAt EXCEPT ![id] = now]
                                ELSE insertedAt
               /\ resolved' = [resolved EXCEPT ![id] =
                                  Max2(@, NewDate(ddoInfo.lastUpdateTime))]
               /\ calls' = [calls EXCEPT ![c] =
                              [pc |-> "returned", id |-> id, ret |-> ddoInfo]]
          ELSE /\ calls' = [calls EXCEPT ![c] =
                              [pc |-> "returned", id |-> id, ret |-> Undefined]]
               /\ UNCHANGED <<dht, insertedAt, resolved>>
    /\ UNCHANGED <<now, updated, db, resultList, sortArg, sortCalled, lookup>>
    /\ UNCHANGED chainVars

\* ------------------------------------------------------------- environment
\* the local store gets a DDO version (written by the indexer), or loses
\* its record (ddo = NoDDO)
StoreWrite(id, ddo) ==
    /\ db[id] # ddo
    /\ db' = [db EXCEPT ![id] = ddo]
    /\ UNCHANGED <<now, dht, updated, calls, resultList, sortArg, sortCalled,
                   lookup, insertedAt, resolved>>
    /\ UNCHANGED chainVars

\* time passes
Tick ==
    /\ now < CACHE_TTL + MaxSlack
    /\ now' = now + 1
    /\ UNCHANGED <<dht, updated, db, calls, resultList, sortArg, sortCalled,
                   lookup, insertedAt, resolved>>
    /\ UNCHANGED chainVars

PeerRecordsFor(id) == {r \in RecordsFor(id) : r.provider # Self}
PeerResponses(id) == UNION {[1..k -> PeerRecordsFor(id)] : k \in 0..MaxPeers}

\* the caller of findDDOLocally reconciles the candidates of its resolution
\* attempt: it collects the local record, if any, first, then the peers'
\* responses, and calls sortFindDDOResults on the array
Reconcile(c) ==
    /\ calls[c].pc = "returned"
    /\ ~sortCalled
    /\ \E peers \in PeerResponses(calls[c].id) :
          SortCall((IF calls[c].ret = Undefined THEN <<>>
                    ELSE <<calls[c].ret>>) \o peers)
    /\ UNCHANGED calls

\* -------------------------------------------------------------- Blockchain
\* endpoint names, the primary first
RpcNames == <<"primary", "f1", "f2", "f3", "f4">>
FbCallers == {1, 2}

\* the provider objects that carry the manager's "network" handler
Subscribed == {p \in 1..Len(providers) : providers[p].listeners > 0}

\* new JsonRpcProvider(rpc): a fresh object, no listener, not ready
NewProvider(rpc) == [rpc |-> rpc, listeners |-> 0, ready |-> FALSE]

\* provider.on('network', this.networkChanged) on object p
On(ps, p) == [ps EXCEPT ![p].listeners = @ + 1]

\* provider.off('network', this.networkChanged) on object p
Off(ps, p) == [ps EXCEPT ![p].listeners = IF @ > 0 THEN @ - 1 ELSE 0]

\* getKnownRPCs(): the knownRPCs array itself
GetKnownRPCs == knownRPCs

\* mutant of StartIndex: the walk starts at the primary's successor
StartIndexOffByOne == Len(knownRPCs) - 2

\* "let i = this.knownRPCs.length - 1"
StartIndex == Len(knownRPCs) - 1

\* mutant of LoopContinues: "i > 0", the primary is never retried
LoopContinuesSkipPrimary(i) == i > 0

\* "i >= 0"
LoopContinues(i) == i >= 0

\* mutant of ReadyWithoutProbe: "this.provider.ready" is not consulted
ReadyWithoutProbeFlagOnly == networkAvailable

\* this.networkAvailable || this.provider.ready
ReadyWithoutProbe == networkAvailable \/ providers[provider].ready

\* detectNetwork against provider object p: _detectNetwork() answers with
\* a Network when the endpoint answers, and throws (false) when it does not
DetectNetwork(p) == providers[p].rpc \in reachable

\* tryFallbackRPCs up to the first "await this.provider.off(...)"
tryFallbackRPCsCall(c) ==
    /\ fb[c].pc \in {"idle", "returned"}
    /\ Len(providers) + Len(knownRPCs) <= 1 + MaxNewProviders
    /\ fb' = [fb EXCEPT ![c] =
                IF LoopContinues(StartIndex)
                THEN [pc |-> "off", i |-> StartIndex, target |-> provider,
                      tried |-> <<>>]
                ELSE [pc |-> "returned", ret |-> FALSE, tried |-> <<>>]]
    /\ UNCHANGED <<knownRPCs, providers, provider, signer, networkAvailable,
                   reachable, nr, lastEvent>>
    /\ UNCHANGED ddoVars

\* "await this.provider.off('network', this.networkChanged)" is served:
\* the handler is off the provider object the call named, and the call's
\* continuation is queued
tryFallbackRPCsOff(c) ==
    /\ fb[c].pc = "off"
    /\ providers' = Off(providers, fb[c].target)
    /\ fb' = [fb EXCEPT ![c].pc = "offDone"]
    /\ UNCHANGED <<knownRPCs, provider, signer, networkAvailable, reachable,
                   nr, lastEvent>>
    /\ UNCHANGED ddoVars

\* mutant of RegisterForNetworkEvents: the handler is not registered
RegisterForNetworkEventsNot(ps, p) == ps

\* registerForNetworkEvents() while this.provider is object p
RegisterForNetworkEvents(ps, p) == On(ps, p)

\* mutant of NewWallet: the wallet stays bound to the previous provider
NewWalletStale(p) == IF p > 1 THEN p - 1 ELSE p

\* new ethers.Wallet(process.env.PRIVATE_KEY, this.provider) while
\* this.provider is object p: the provider the wallet is bound to
NewWallet(p) == p

\* mutant of tryFallbackRPCsSwap: the candidate is taken off the end of
\* knownRPCs with pop() instead of being read at index i
tryFallbackRPCsSwapPop(c) ==
    /\ fb[c].pc = "offDone"
    /\ LET new == Len(providers) + 1
           created == Append(providers, NewProvider(knownRPCs[Len(knownRPCs)]))
       IN /\ providers' = RegisterForNetworkEvents(created, new)
          /\ provider' = new
          /\ signer' = NewWallet(new)
    /\ knownRPCs' = SubSeq(knownRPCs, 1, Len(knownRPCs) - 1)
    /\ fb' = [fb EXCEPT ![c] = [pc |-> "sleep", i |-> fb[c].i,
                               tried |-> Append(fb[c].tried, fb[c].i)]]
    /\ UNCHANGED <<networkAvailable, reachable, nr, lastEvent>>
    /\ UNCHANGED ddoVars

\* from the end of "await off" to "await sleep(2000)", one synchronous
\* block: the new provider and signer are installed and the handler is
\* registered on the new provider
tryFallbackRPCsSwap(c) ==
    /\ fb[c].pc = "offDone"
    /\ LET new == Len(providers) + 1
           created == Append(providers, NewProvider(knownRPCs[fb[c].i + 1]))
       IN /\ providers' = RegisterForNetworkEvents(created, new)
          /\ provider' = new
          /\ signer' = NewWallet(new)
    /\ fb' = [fb EXCEPT ![c] = [pc |-> "sleep", i |-> fb[c].i,
                               tried |-> Append(fb[c].tried, fb[c].i)]]
    /\ UNCHANGED <<knownRPCs, networkAvailable, reachable, nr, lastEvent>>
    /\ UNCHANGED ddoVars

\* the state of a call whose isNetworkReady() answered ok for candidate i
AfterCheck(call, ok) ==
    IF ok THEN [pc |-> "returned", ret |-> TRUE, tried |-> call.tried]
    ELSE IF LoopContinues(call.i - 1)
         THEN [pc |-> "off", i |-> call.i - 1, target |-> provider,
               tried |-> call.tried]
         ELSE [pc |-> "returned", ret |-> FALSE, tried |-> call.tried]

\* after the sleep: isNetworkReady() up to its answer or to the
\* "await this.provider._detectNetwork()" of detectNetwork
tryFallbackRPCsWake(c) ==
    /\ fb[c].pc = "sleep"
    /\ fb' = [fb EXCEPT ![c] =
                IF ReadyWithoutProbe
                THEN AfterCheck(fb[c], TRUE)
                ELSE [pc |-> "probe", i |-> fb[c].i, target |-> provider,
                      tried |-> fb[c].tried]]
    /\ UNCHANGED <<knownRPCs, providers, provider, signer, networkAvailable,
                   reachable, nr, lastEvent>>
    /\ UNCHANGED ddoVars

\* the probe answers: "fallback ok", or the next round of the loop up to
\* its "await off", or "fallback failed"
tryFallbackRPCsProbed(c) ==
    /\ fb[c].pc = "probe"
    /\ fb' = [fb EXCEPT ![c] = AfterCheck(fb[c], DetectNetwork(fb[c].target))]
    /\ UNCHANGED <<knownRPCs, providers, provider, signer, networkAvailable,
                   reachable, nr, lastEvent>>
    /\ UNCHANGED ddoVars

\* isNetworkReady() called from outside tryFallbackRPCs, up to its answer
\* or to the "await this.provider._detectNetwork()" of detectNetwork;
\* probes counts the _detectNetwork requests the call has issued
isNetworkReadyCall ==
    /\ nr.pc \in {"idle", "returned"}
    /\ nr' = IF ReadyWithoutProbe
             THEN [pc |-> "returned", ret |-> TRUE, probes |-> 0]
             ELSE [pc |-> "probe", target |-> provider, probes |-> 1]
    /\ UNCHANGED <<knownRPCs, providers, provider, signer, networkAvailable,
                   reachable, fb, lastEvent>>
    /\ UNCHANGED ddoVars

\* the probe of the outside caller answers; detectNetwork returns its
\* verdict, false when the probe threw
isNetworkReadyProbed ==
    /\ nr.pc = "probe"
    /\ nr' = [pc |-> "returned", ret |-> DetectNetwork(nr.target),
              probes |-> nr.probes]
    /\ UNCHANGED <<knownRPCs, providers, provider, signer, networkAvailable,
                   reachable, fb, lastEvent>>
    /\ UNCHANGED ddoVars

\* the active provider finishes its start-up and reports itself ready
ProviderReady ==
    /\ ~providers[provider].ready
    /\ providers[provider].rpc \in reachable
    /\ providers' = [providers EXCEPT ![provider].ready = TRUE]
    /\ UNCHANGED <<knownRPCs, provider, signer, networkAvailable, reachable,
                   fb, nr, lastEvent>>
    /\ UNCHANGED ddoVars

\* mutant of networkChanged: the handler runs with the Blockchain object as
\* "this" and the assignment reaches the manager's field
networkChangedBound(p, isNetwork) ==
    /\ lastEvent' = [receiver |-> p, networkAvailable |-> isNetwork]
    /\ networkAvailable' = isNetwork

\* networkChanged(newNetwork) as registered: the method is handed to
\* provider.on unbound, so the emitter calls it with the provider object p
\* as "this"; "this.networkAvailable = ..." lands on p and the Blockchain
\* object's field keeps its value
networkChanged(p, isNetwork) ==
    /\ lastEvent' = [receiver |-> p, networkAvailable |-> isNetwork]
    /\ UNCHANGED networkAvailable

\* provider object p emits "network" to its listeners; the payload is a
\* Network only if the endpoint answered
NetworkEvent(p, isNetwork) ==
    /\ p \in Subscribed
    /\ isNetwork => providers[p].rpc \in reachable
    /\ networkChanged(p, isNetwork)
    /\ UNCHANGED <<knownRPCs, providers, provider, signer, reachable, fb, nr>>
    /\ UNCHANGED ddoVars

\* ------------------------------------------------------------------- Init
InitCache ==
    /\ now = 0
    /\ dht = [id \in Ids |-> NoEntry]
    /\ updated = 0
    /\ db = [id \in Ids |-> NoDDO]
    /\ calls = [c \in Callers |-> [pc |-> "idle"]]
    /\ lookup = [none |-> "lookup"]
    /\ insertedAt = [id \in Ids |-> -1]
    /\ resolved = [id \in Ids |-> -1]

InitNoList ==
    /\ resultList = <<>>
    /\ sortArg = <<>>
    /\ sortCalled = FALSE

\* the Blockchain object after its constructor, for rpc = "primary" and
\* the first n names of the fallback list
Constructed(n) ==
    /\ knownRPCs = SubSeq(RpcNames, 1, n + 1)
    /\ providers = RegisterForNetworkEvents(<<NewProvider("primary")>>, 1)
    /\ provider = 1
    /\ signer = NewWallet(1)
    /\ networkAvailable = FALSE
    /\ fb = [c \in FbCallers |-> [pc |-> "idle"]]
    /\ nr = [pc |-> "idle"]
    /\ lastEvent = [none |-> "event"]

InitChainIdle ==
    /\ Constructed(0)
    /\ reachable = {}

\* --------------------------------------------------------------- SpecSort
InitSort ==
    /\ InitCache
    /\ InitChainIdle
    /\ resultList \in CandidateLists(MaxLen)
    /\ sortArg = <<>>
    /\ sortCalled = FALSE

NextSort == sortFindDDOResults

SpecSort == InitSort /\ [][NextSort]_vars

IsPermutation(s, t) ==
    /\ Len(s) = Len(t)
    /\ \A r \in {s[i] : i \in 1..Len(s)} \cup {t[i] : i \in 1..Len(t)} :
          Cardinality({i \in 1..Len(s) : s[i] = r})
            = Cardinality({i \in 1..Len(t) : t[i] = r})

WithInstant(list, t) ==
    SelectSeq(list, LAMBDA r : NewDate(r.lastUpdateTime) = t)

\* C3: for a non-empty candidate list sortFindDDOResults returns a
\* permutation of the candidates in descending lastUpdateTime order, so the
\* record at index 0 is at least as recent as every candidate; sorting the
\* singleton list of that winner returns the same record.
C3_SortedDescending ==
    (sortCalled /\ Len(sortArg) > 0) =>
        /\ IsPermutation(resultList, sortArg)
        /\ \A i, j \in 1..Len(resultList) :
              i < j => NewDate(resultList[i].lastUpdateTime)
                         >= NewDate(resultList[j].lastUpdateTime)
        /\ \A k \in 1..Len(sortArg) :
              NewDate(resultList[1].lastUpdateTime)
                >= NewDate(sortArg[k].lastUpdateTime)
        /\ SortFindDDOResults(<<resultList[1]>>) = <<resultList[1]>>

\* a three-element list whose newest record was last in the input
C3_Witness ==
    /\ sortCalled
    /\ Len(sortArg) = 3
    /\ NewDate(sortArg[1].lastUpdateTime) < NewDate(sortArg[3].lastUpdateTime)
    /\ resultList[1] = sortArg[3]
    /\ resultList # sortArg

\* C4: candidates with the same lastUpdateTime (indeed, with the same
\* instant) keep their relative input order; a local record listed first
\* whose instant is the maximum is the record at index 0.
C4_StableTies ==
    sortCalled =>
        /\ \A t \in 0..MaxTime :
              WithInstant(resultList, t) = WithInstant(sortArg, t)
        /\ \A i \in 1..Len(sortArg) :
              ( /\ sortArg[i].provider = Self
                /\ \A k \in 1..Len(sortArg) :
                      NewDate(sortArg[k].lastUpdateTime)
                        <= NewDate(sortArg[i].lastUpdateTime)
                /\ \A k \in 1..(i - 1) :
                      NewDate(sortArg[k].lastUpdateTime)
                        < NewDate(sortArg[i].lastUpdateTime) )
              => resultList[1] = sortArg[i]

\* an older record first, then the local and a peer record with the very
\* same lastUpdateTime: the local record ends at index 0, the peer's next
C4_Witness ==
    /\ sortCalled
    /\ Len(sortArg) = 3
    /\ NewDate(sortArg[1].lastUpdateTime) < NewDate(sortArg[2].lastUpdateTime)
    /\ sortArg[2].provider = Self
    /\ sortArg[3].provider # Self
    /\ sortArg[2].lastUpdateTime = sortArg[3].lastUpdateTime
    /\ resultList = <<sortArg[2], sortArg[3], sortArg[1]>>

\* -------------------------------------------------------------- SpecCache
InitCacheSpec ==
    /\ InitCache
    /\ InitNoList
    /\ InitChainIdle

NextCache ==
    \/ \E id \in Ids : findDDOLocallyCall(1, id)
    \/ findDDOLocallyResume(1)
    \/ \E id \in Ids, ddo \in StoredDDO : StoreWrite(id, ddo)
    \/ Reconcile(1)

SpecCache == InitCacheSpec /\ [][NextCache]_vars

\* -------------------------------------------------------------- SpecFresh
NextFresh ==
    \/ \E id \in Ids : findDDOLocallyCall(1, id)
    \/ findDDOLocallyResume(1)
    \/ \E id \in Ids : hasCachedDDO(id)
    \/ \E id \in Ids, ddo \in StoredDDO : StoreWrite(id, ddo)
    \/ Tick

SpecFresh == InitCacheSpec /\ [][NextFresh]_vars

\* ------------------------------------------------------------ SpecResolve
NextResolve ==
    \/ \E c \in Callers, id \in Ids : findDDOLocallyCall(c, id)
    \/ \E c \in Callers : findDDOLocallyResume(c)
    \/ \E id \in Ids, ddo \in StoredDDO : StoreWrite(id, ddo)
    \/ \E id \in Ids : StoreWrite(id, NoDDO)

SpecResolve == InitCacheSpec /\ [][NextResolve]_vars

\* ------------------------------------------------ claims on the DDO cache
\* the step in which sortFindDDOResults returns
SortStep == ~sortCalled /\ sortCalled'

\* C5: reconciling an empty candidate list returns the empty list (no
\* winner) and leaves every cache entry and the cache timestamp unchanged.
C5_EmptyUnknown ==
    [][(SortStep /\ sortArg' = <<>>)
          => (resultList' = <<>> /\ dht' = dht /\ updated' = updated)]_vars

\* an empty list was reconciled while the cache held an entry
C5_Witness ==
    /\ sortCalled
    /\ sortArg = <<>>
    /\ resultList = <<>>
    /\ \E id \in Ids : dht[id] # NoEntry

C7_PerEntryAge ==
    \A id \in Ids :
        HasCachedDDO(id)
          <=> (dht[id] # NoEntry /\ now - insertedAt[id] <= CACHE_TTL)

\* the step in which hasCachedDDO returns a new answer
LookupStep == lookup' # lookup

\* C8 as claimed: a freshness lookup leaves the cache as it is, and it
\* reports a present entry fresh exactly while the entry's age is at most
\* CACHE_TTL (an age of exactly CACHE_TTL is still fresh).
C8_LookupKeepsEntry ==
    [][LookupStep
          => /\ dht' = dht
             /\ dht[lookup'.id] # NoEntry
                  => (lookup'.ret
                        <=> now - insertedAt[lookup'.id] <= CACHE_TTL)]_vars

\* the step in which caller c's findDDOLocally returns a record
FoundStep(c) ==
    /\ calls[c].pc = "retrieve"
    /\ calls'[c].pc = "returned"
    /\ calls'[c].ret # Undefined

\* C9: when findDDOLocally finds the identifier in the store, the cache
\* entry on return is the record built from the store or the entry the
\* cache held when it was compared, whichever has the larger
\* lastUpdateTime: the built record if there was no entry, the cached
\* record if the two instants are equal; no other entry changes.
C9_KeepsNewer ==
    [][\A c \in Callers :
          FoundStep(c) =>
            LET id == calls[c].id
                built == calls'[c].ret
                prior == dht[id]
                after == dht'[id]
            IN /\ built = DdoInfo(id, db[id])
               /\ prior = NoEntry => after = built
               /\ prior # NoEntry =>
                    /\ after \in {built, prior}
                    /\ NewDate(after.lastUpdateTime)
                         >= NewDate(built.lastUpdateTime)
                    /\ NewDate(after.lastUpdateTime)
                         >= NewDate(prior.lastUpdateTime)
                    /\ NewDate(built.lastUpdateTime)
                         = NewDate(prior.lastUpdateTime) => after = prior
               /\ \A other \in Ids \ {id} : dht'[other] = dht[other]]_vars

\* a call returned a record as recent as, but different from, the cached
\* one: the cached record was kept
C9_Witness ==
    \E c \in Callers :
        /\ calls[c].pc = "returned"
        /\ calls[c].ret # Undefined
        /\ dht[calls[c].id] # NoEntry
        /\ dht[calls[c].id] # calls[c].ret
        /\ NewDate(dht[calls[c].id].lastUpdateTime)
             = NewDate(calls[c].ret.lastUpdateTime)

C10_MaxResolved ==
    \A id \in Ids :
        IF resolved[id] = -1 THEN dht[id] = NoEntry
        ELSE /\ dht[id] # NoEntry
             /\ NewDate(dht[id].lastUpdateTime) = resolved[id]

C10_NeverOlder ==
    \A id \in Ids :
        dht[id] # NoEntry =>
            /\ dht'[id] # NoEntry
            /\ NewDate(dht'[id].lastUpdateTime)
                 >= NewDate(dht[id].lastUpdateTime)

InitChain ==
    /\ InitCache
    /\ InitNoList
    /\ \E n \in 0..MaxFallbacks : Constructed(n)
    /\ reachable \in SUBSET {knownRPCs[k] : k \in 1..Len(knownRPCs)}

\* one caller of tryFallbackRPCs at a time, next to a caller of
\* isNetworkReady and to the providers' notifications
NextChain ==
    \/ tryFallbackRPCsCall(1)
    \/ tryFallbackRPCsOff(1)
    \/ tryFallbackRPCsSwap(1)
    \/ tryFallbackRPCsWake(1)
    \/ tryFallbackRPCsProbed(1)
    \/ isNetworkReadyCall
    \/ isNetworkReadyProbed
    \/ ProviderReady
    \/ \E p \in 1..Len(providers), isNetwork \in BOOLEAN :
          NetworkEvent(p, isNetwork)

SpecChain == InitChain /\ [][NextChain]_vars

\* every await of a call in flight completes: the unsubscription is served,
\* the two-second timer fires, the probe answers or throws
SpecChainLive ==
    /\ InitChain
    /\ [][NextChain]_vars
    /\ WF_vars(tryFallbackRPCsOff(1))
    /\ WF_vars(tryFallbackRPCsSwap(1))
    /\ WF_vars(tryFallbackRPCsWake(1))
    /\ WF_vars(tryFallbackRPCsProbed(1))

\* ------------------------------------------------ claims on tryFallbackRPCs
ActiveRpc == providers[provider].rpc
Pool == {knownRPCs[k] : k \in 1..Len(knownRPCs)}

\* the indices a call has tried are Len - 1, Len - 2, ... in this order
Descending(tried) ==
    \A k \in 1..Len(tried) : tried[k] = Len(knownRPCs) - k

\* C1: one call of tryFallbackRPCs tries the candidates in strictly
\* descending index order, last fallback first; it returns true at the
\* first candidate confirmed reachable, with that candidate as the active
\* endpoint (provider and signer), having tried no lower index; with pool
\* [primary, f1, f2] and only f2 reachable it ends at f2 and tries neither
\* f1 nor primary.
C1_DescendingWalk ==
    /\ fb[1].pc # "idle" => Descending(fb[1].tried)
    /\ (fb[1].pc = "returned" /\ fb[1].ret) =>
          LET tried == fb[1].tried
              last == tried[Len(tried)]
          IN /\ Len(tried) >= 1
             /\ ActiveRpc = knownRPCs[last + 1]
             /\ signer = provider
             /\ ActiveRpc \in reachable
             /\ \A k \in 1..(Len(tried) - 1) :
                   knownRPCs[tried[k] + 1] \notin reachable
    /\ (fb[1].pc = "returned" /\ Len(knownRPCs) = 3 /\ reachable = {"f2"}) =>
          /\ fb[1].ret
          /\ fb[1].tried = <<2>>
          /\ ActiveRpc = "f2"

\* pool [primary, f1, f2], only f2 reachable: the call returned true at f2
C1_Witness ==
    /\ Len(knownRPCs) = 3
    /\ reachable = {"f2"}
    /\ fb[1].pc = "returned"
    /\ fb[1].ret
    /\ fb[1].tried = <<2>>
    /\ ActiveRpc = "f2"

C2_Exhausted ==
    /\ fb[1].pc # "idle" => Len(fb[1].tried) <= Len(knownRPCs)
    /\ (fb[1].pc = "returned" /\ ~fb[1].ret) =>
          /\ Len(fb[1].tried) = Len(knownRPCs)
          /\ Descending(fb[1].tried)
          /\ ActiveRpc = knownRPCs[1]
          /\ ~networkAvailable
          /\ ~providers[provider].ready
          /\ Pool \cap reachable = {}
    /\ (fb[1].pc = "returned" /\ Pool \cap reachable = {}) => ~fb[1].ret

C2_InFlight == fb[1].pc \in {"off", "offDone", "sleep", "probe"}

\* C2: a call in which no endpoint is confirmed reachable tries every
\* endpoint of the pool exactly once, last fallback first and the primary
\* last, and then returns false with the manager not healthy; no call
\* tries more candidates than the pool holds, and every call returns.
C2_ExhaustedFails ==
    /\ []C2_Exhausted
    /\ C2_InFlight ~> (fb[1].pc = "returned")

\* pool [primary, f1, f2], nothing reachable: f2, f1 and primary were
\* tried once each and the call returned false
C2_Witness ==
    /\ Len(knownRPCs) = 3
    /\ reachable = {}
    /\ fb[1].pc = "returned"
    /\ ~fb[1].ret
    /\ fb[1].tried = <<2, 1, 0>>
    /\ ActiveRpc = "primary"

\* ------------------------------------------- claims on the Blockchain object
\* a step of the outside caller's isNetworkReady
ReadyStep == nr' # nr

\* C11: isNetworkReady returns true without a probe when networkAvailable
\* is set or the provider reports itself ready; otherwise it issues exactly
\* one probe, against the active provider, and returns the probe's verdict
\* (false when the probe threw); none of its steps changes the provider,
\* the signer, networkAvailable, the subscriptions or knownRPCs.
C11_ReadyOrOneProbe ==
    [][ReadyStep =>
         /\ UNCHANGED <<knownRPCs, providers, provider, signer,
                        networkAvailable, fb>>
         /\ nr.pc # "probe" =>
              IF networkAvailable \/ providers[provider].ready
              THEN nr'.pc = "returned" /\ nr'.ret /\ nr'.probes = 0
              ELSE nr'.pc = "probe" /\ nr'.probes = 1 /\ nr'.target = provider
         /\ nr.pc = "probe" =>
              /\ nr'.pc = "returned"
              /\ nr'.probes = 1
              /\ nr'.ret = (providers[nr.target].rpc \in reachable)]_vars

\* the provider was neither ready nor reachable: one probe, answer false
C11_Witness ==
    /\ nr.pc = "returned"
    /\ nr.probes = 1
    /\ ~nr.ret
    /\ ~providers[provider].ready
    /\ ActiveRpc \notin reachable

\* a step in which a "network" notification reaches networkChanged
NotifyStep == lastEvent' # lastEvent

\* C12 as claimed: when the provider the manager is subscribed to and
\* uses delivers a "network" notification, networkAvailable becomes true if
\* the payload is a Network and false if it is not.
C12_NotificationSetsFlag ==
    [][(NotifyStep /\ lastEvent'.receiver = provider)
          => networkAvailable' = lastEvent'.networkAvailable]_vars

\* C13 as claimed: after sortFindDDOResults has returned, the caller's
\* candidate array holds the elements it held at the call, in the same
\* order.
C13_InputUntouched ==
    sortCalled => resultList = sortArg

\* C14: getKnownRPCs returns the primary endpoint followed by the
\* fallbacks, in the order the constructor received them, and no step of
\* tryFallbackRPCs, isNetworkReady or a notification changes that list;
\* only the active provider changes.
C14_PoolFixed ==
    /\ [](\E n \in 0..MaxFallbacks : GetKnownRPCs = SubSeq(RpcNames, 1, n + 1))
    /\ [][GetKnownRPCs' = GetKnownRPCs]_vars

\* pool [primary, f1, f2] after a call that failed on f2 and succeeded on
\* f1, an isNetworkReady call and a notification
C14_Witness ==
    /\ GetKnownRPCs = <<"primary", "f1", "f2">>
    /\ fb[1].pc = "returned"
    /\ fb[1].tried = <<2, 1>>
    /\ ActiveRpc = "f1"
    /\ nr.pc = "returned"
    /\ lastEvent # [none |-> "event"]

\* C15: with findDDOLocally calls for the same identifier interleaved at
\* their awaits, every change of a cache entry is the write of exactly one
\* call, made in the step in which that call compared its record with the
\* entry, and it replaces an entry only by a record with a strictly later
\* lastUpdateTime: no write puts an older record over a newer one.
C15_NoStaleWrite ==
    [][\A id \in Ids :
          dht'[id] # dht[id] =>
            /\ \E c \in Callers :
                  /\ FoundStep(c)
                  /\ calls[c].id = id
                  /\ dht'[id] = calls'[c].ret
                  /\ \A d \in Callers \ {c} : calls'[d] = calls[d]
            /\ dht[id] # NoEntry =>
                  NewDate(dht'[id].lastUpdateTime)
                    > NewDate(dht[id].lastUpdateTime)]_vars

\* two calls for one identifier have returned, one with a record older
\* than the other's (the store holds the older version): the cache holds
\* the newer record
C15_Witness ==
    \E c, d \in Callers :
        /\ c # d
        /\ calls[c].pc = "returned" /\ calls[d].pc = "returned"
        /\ calls[c].id = calls[d].id
        /\ calls[c].ret # Undefined /\ calls[d].ret # Undefined
        /\ NewDate(calls[d].ret.lastUpdateTime)
             < NewDate(calls[c].ret.lastUpdateTime)
        /\ db[calls[d].id] # NoDDO
        /\ DdoInfo(calls[d].id, db[calls[d].id]) = calls[d].ret
        /\ dht[calls[c].id] = calls[c].ret

\* C16 as claimed: an endpoint swap is atomic for the other operations: in
\* no state in which another operation can run has a call's unsubscription
\* taken effect while its new provider, signer and subscription are still
\* to be installed.
C16_SwapAtomic ==
    \A c \in FbCallers :
        fb[c].pc \in {"off", "offDone"} => fb[c].target \in Subscribed

C17_OneSubscription ==
    fb[1].pc \in {"sleep", "probe", "returned"} =>
        /\ Subscribed = {provider}
        /\ providers[provider].listeners = 1

C17_HeardDuringWait ==
    (fb[1].pc = "sleep" /\ NotifyStep) => lastEvent'.receiver = provider

\* C17: in a call of tryFallbackRPCs (not overlapping another one), each
\* swap has taken the handler off the previous provider and registered it
\* on the new one when the two-second wait begins: during every wait,
\* during the probe and after the return, the active provider and no
\* other carries the handler, once, and a notification delivered during
\* the wait comes from the new provider.
C17_SubscribedBeforeWait ==
    /\ []C17_OneSubscription
    /\ [][C17_HeardDuringWait]_vars

\* the second candidate of a call is installed and, during the wait, its
\* notification has reached the handler; the earlier providers carry none
C17_Witness ==
    /\ fb[1].pc = "sleep"
    /\ Len(fb[1].tried) = 2
    /\ provider = 3
    /\ lastEvent # [none |-> "event"]
    /\ lastEvent.receiver = provider
    /\ lastEvent.networkAvailable
    /\ providers[1].listeners = 0
    /\ providers[2].listeners = 0

\* ------------------------------------------------------------ SpecOverlap
\* tryFallbackRPCs called by two callers whose calls interleave at their
\* awaits (notifications, which change no field of the manager, left out)
NextOverlap ==
    \/ \E c \in FbCallers : tryFallbackRPCsCall(c)
    \/ \E c \in FbCallers : tryFallbackRPCsOff(c)
    \/ \E c \in FbCallers : tryFallbackRPCsSwap(c)
    \/ \E c \in FbCallers : tryFallbackRPCsWake(c)
    \/ \E c \in FbCallers : tryFallbackRPCsProbed(c)
    \/ ProviderReady

SpecOverlap == InitChain /\ [][NextOverlap]_vars

\* C18: in every state another operation can observe (after construction,
\* at every await of tryFallbackRPCs calls, overlapping or not, and after
\* their return) the wallet getSigner returns is bound to the provider
\* getProvider returns.
C18_SignerOnProvider ==
    signer = provider

\* two overlapping calls have each installed a provider and a wallet; the
\* wallet is bound to the provider installed last
C18_Witness ==
    /\ fb[1].pc = "sleep"
    /\ fb[2].pc = "sleep"
    /\ provider = 3
    /\ signer = 3

\* the step in which caller c's findDDOLocally returns
ReturnStep(c) ==
    /\ calls[c].pc = "retrieve"
    /\ calls'[c].pc = "returned"

\* C19: when the store has no record for the identifier, findDDOLocally
\* returns undefined (it throws nothing) and leaves every cache entry and
\* the cache timestamp as they were, also when the cache still holds an
\* entry for that identifier.
C19_AbsentIsUndefined ==
    [][\A c \in Callers :
          (ReturnStep(c) /\ db[calls[c].id] = NoDDO) =>
             /\ calls'[c].ret = Undefined
             /\ dht' = dht
             /\ updated' = updated]_vars

\* a call returned undefined for an identifier whose record has left the
\* store; the cache still holds the entry an earlier call wrote
C19_Witness ==
    \E c \in Callers :
        /\ calls[c].pc = "returned"
        /\ calls[c].ret = Undefined
        /\ db[calls[c].id] = NoDDO
        /\ dht[calls[c].id] # NoEntry

\* the Blockchain object as its constructor left it: no call made, no
\* notification delivered, the provider's start-up not finished
JustConstructed ==
    /\ \A c \in FbCallers : fb[c].pc = "idle"
    /\ nr.pc = "idle"
    /\ lastEvent = [none |-> "event"]
    /\ Len(providers) = 1
    /\ ~providers[1].ready

\* C20 as claimed: right after construction the active provider targets
\* knownRPCs[0], the handler is subscribed on it and networkAvailable is
\* true.
C20_ConnectedAfterConstruction ==
    JustConstructed =>
        /\ ActiveRpc = knownRPCs[1]
        /\ provider \in Subscribed
        /\ networkAvailable

\* the step in which caller c's tryFallbackRPCs returns true
ReturnsTrue(c) ==
    /\ fb[c].pc \in {"sleep", "probe"}
    /\ fb'[c].pc = "returned"
    /\ fb'[c].ret

\* C21 as claimed: with two tryFallbackRPCs calls overlapping, when a call
\* returns true the active provider and the signer are those of the
\* candidate that call installed last and found reachable, and no provider
\* but the active one carries the handler.
C21_OverlapKeepsCandidate ==
    [][\A c \in FbCallers :
          ReturnsTrue(c) =>
            LET tried == fb'[c].tried
                last == tried[Len(tried)]
            IN /\ providers'[provider'].rpc = knownRPCs[last + 1]
               /\ providers'[provider'].rpc \in reachable
               /\ signer' = provider'
               /\ Subscribed' \subseteq {provider'}]_vars

\* C22: a call of tryFallbackRPCs (not overlapping another one) returns
\* true only with its current candidate active and reachable, and only on
\* that candidate's own evidence: the provider installed for it reports
\* ready, or networkAvailable was set by that provider's own notification,
\* or the probe was sent to that provider and answered. A notification of
\* an earlier provider never makes the call accept an unreachable
\* candidate.
C22_AcceptsOnlyConfirmed ==
    [][ReturnsTrue(1) =>
         /\ provider' = provider
         /\ ActiveRpc = knownRPCs[fb[1].i + 1]
         /\ ActiveRpc \in reachable
         /\ fb[1].pc = "sleep" =>
              \/ providers[provider].ready
              \/ /\ networkAvailable
                 /\ lastEvent # [none |-> "event"]
                 /\ lastEvent.receiver = provider
                 /\ lastEvent.networkAvailable
         /\ fb[1].pc = "probe" =>
              /\ fb[1].target = provider
              /\ DetectNetwork(provider)]_vars

\* the constructor's provider delivered a Network notification; the call
\* that followed rejected the unreachable f2 and f1 and returned true on
\* the primary, the only reachable endpoint
C22_Witness ==
    /\ knownRPCs = <<"primary", "f1", "f2">>
    /\ reachable = {"primary"}
    /\ lastEvent # [none |-> "event"]
    /\ lastEvent.receiver = 1
    /\ lastEvent.networkAvailable
    /\ fb[1].pc = "returned"
    /\ fb[1].ret
    /\ fb[1].tried = <<2, 1, 0>>
    /\ provider = 4
    /\ ActiveRpc = "primary"

====
